---- MODULE Spec2Model ----
(***************************************************************************)
(* X12 EDI codec of the EDIX12 repository: delimiter detection, segment   *)
(* tokenizer, ST/SE envelope validator, the 270/276/835/837 builders and  *)
(* the 271 parser.                                                         *)
(*                                                                         *)
(* A Python str is modelled as a sequence of one-character strings, so    *)
(* that splitting, stripping, counting and offset reads are computed the  *)
(* way the code computes them.  A Python list is a sequence, a dict is a  *)
(* record (the empty dict is the empty function << >>).                    *)
(***************************************************************************)
EXTENDS Integers, Sequences, FiniteSets, TLC

(* ------------------------------------------------------------------ *)
(* Python str / list primitives used by the codec                       *)
(* ------------------------------------------------------------------ *)

\* Characters str.strip() removes, restricted to the characters documents here use.
Whitespace == {" ", "\t", "\n", "\r"}

Digit == {"0", "1", "2", "3", "4", "5", "6", "7", "8", "9"}

DigitValue == [c \in Digit |->
    CASE c = "0" -> 0 [] c = "1" -> 1 [] c = "2" -> 2 [] c = "3" -> 3
      [] c = "4" -> 4 [] c = "5" -> 5 [] c = "6" -> 6 [] c = "7" -> 7
      [] c = "8" -> 8 [] c = "9" -> 9]

DigitChar == <<"0", "1", "2", "3", "4", "5", "6", "7", "8", "9">>

LowerToUpper ==
    [a |-> "A", b |-> "B", c |-> "C", d |-> "D", e |-> "E", f |-> "F",
     g |-> "G", h |-> "H", i |-> "I", j |-> "J", k |-> "K", l |-> "L",
     m |-> "M", n |-> "N", o |-> "O", p |-> "P", q |-> "Q", r |-> "R",
     s |-> "S", t |-> "T", u |-> "U", v |-> "V", w |-> "W", x |-> "X",
     y |-> "Y", z |-> "Z"]

\* The value standing for a raised IndexError where a str (a character) was expected,
\* and where a list element (a str) was expected.
CharIndexError == "<IndexError>"
IndexError == <<"<IndexError>">>

\* text[i] with Python's 0-based index: raises IndexError past the end.
CharAt(text, i) == IF i < Len(text) THEN text[i + 1] ELSE CharIndexError

\* parts[i] with Python's 0-based index on a list of str.
Item(parts, i) == IF i < Len(parts) THEN parts[i + 1] ELSE IndexError

\* str.count(c) for a one-character c.
count(text, c) == Cardinality({i \in 1..Len(text) : text[i] = c})

startswith(text, prefix) ==
    Len(text) >= Len(prefix) /\ SubSeq(text, 1, Len(prefix)) = prefix

endswith(text, suffix) ==
    Len(text) >= Len(suffix)
    /\ SubSeq(text, Len(text) - Len(suffix) + 1, Len(text)) = suffix

\* `needle in text`
contains(text, needle) ==
    \E i \in 0..(Len(text) - Len(needle)) :
        SubSeq(text, i + 1, i + Len(needle)) = needle

\* text[:n]
prefix(text, n) == SubSeq(text, 1, IF Len(text) < n THEN Len(text) ELSE n)

\* str.strip()
strip(text) ==
    IF \A i \in 1..Len(text) : text[i] \in Whitespace
    THEN << >>
    ELSE LET n == Len(text)
             first == CHOOSE i \in 1..n :
                        /\ text[i] \notin Whitespace
                        /\ \A j \in 1..(i - 1) : text[j] \in Whitespace
             back == CHOOSE k \in 1..n :
                        /\ text[n + 1 - k] \notin Whitespace
                        /\ \A j \in 1..(k - 1) : text[n + 1 - j] \in Whitespace
         IN  SubSeq(text, first, n + 1 - back)

\* str.upper()
upper(text) ==
    [i \in 1..Len(text) |->
        IF text[i] \in DOMAIN LowerToUpper THEN LowerToUpper[text[i]] ELSE text[i]]

\* str.split(sep) for a one-character sep: always at least one piece.
split(text, sep) ==
    LET n == Len(text)
        at == SelectSeq([i \in 1..n |-> i], LAMBDA i : text[i] = sep)
        cuts == <<0>> \o at \o <<n + 1>>
    IN  [k \in 1..(Len(cuts) - 1) |-> SubSeq(text, cuts[k] + 1, cuts[k + 1] - 1)]

\* text.replace("\r\n", "\n")
replace_crlf(text) ==
    LET n == Len(text)
        keep == SelectSeq([i \in 1..n |-> i],
                          LAMBDA i : ~(text[i] = "\r" /\ i < n /\ text[i + 1] = "\n"))
    IN  [k \in 1..Len(keep) |-> text[keep[k]]]

\* "".join(pieces)
RECURSIVE join(_)
join(pieces) ==
    IF pieces = << >> THEN << >> ELSE Head(pieces) \o join(Tail(pieces))

\* sep.join(pieces) for a one-character sep
RECURSIVE join_with(_, _)
join_with(sep, pieces) ==
    IF Len(pieces) = 0 THEN << >>
    ELSE IF Len(pieces) = 1 THEN pieces[1]
    ELSE pieces[1] \o <<sep>> \o join_with(sep, Tail(pieces))

\* str(n) of an int
RECURSIVE nat_str(_)
nat_str(n) ==
    IF n < 10 THEN <<DigitChar[n + 1]>>
    ELSE nat_str(n \div 10) \o <<DigitChar[(n % 10) + 1]>>

py_str(n) == IF n < 0 THEN <<"-">> \o nat_str(0 - n) ELSE nat_str(n)

\* f"{n:09d}" of a non-negative int
zero_pad_9(n) ==
    LET d == nat_str(n)
    IN  IF Len(d) >= 9 THEN d ELSE [i \in 1..(9 - Len(d)) |-> "0"] \o d

\* s.ljust(width) / f"{s:<15}"
ljust(text, width) ==
    IF Len(text) >= width THEN text
    ELSE text \o [i \in 1..(width - Len(text)) |-> " "]

\* int(s): surrounding whitespace and one sign are accepted, then decimal digits.
\* (Underscore separators and non-ASCII digits are outside the characters used here.)
int_body(s) ==
    LET t == strip(s)
    IN  IF Len(t) > 0 /\ t[1] \in {"+", "-"} THEN Tail(t) ELSE t

int_parses(s) ==
    LET b == int_body(s)
    IN  Len(b) > 0 /\ \A i \in 1..Len(b) : b[i] \in Digit

RECURSIVE digits_value(_, _)
digits_value(b, acc) ==
    IF b = << >> THEN acc
    ELSE digits_value(Tail(b), 10 * acc + DigitValue[Head(b)])

int_value(s) ==
    LET t == strip(s)
        v == digits_value(int_body(s), 0)
    IN  IF t[1] = "-" THEN 0 - v ELSE v

(* ------------------------------------------------------------------ *)
(* Defaults and maps                                                    *)
(* ------------------------------------------------------------------ *)

DEFAULT_SEG == "~"
DEFAULT_ELEM == "*"
DEFAULT_SUBELEM == ":"

(* ------------------------------------------------------------------ *)
(* Delimiter detection and the tokenizer                                *)
(* ------------------------------------------------------------------ *)

\* Mutant of detect_delimiters: one newline is enough for the newline fallback.
detect_delimiters_one_newline(edi_text) ==
    LET isa == startswith(edi_text, <<"I", "S", "A">>) /\ Len(edi_text) >= 106
        elem == IF isa THEN CharAt(edi_text, 3) ELSE DEFAULT_ELEM
        comp == IF isa /\ Len(edi_text) > 104 THEN CharAt(edi_text, 104)
                ELSE DEFAULT_SUBELEM
        seg0 == IF isa /\ Len(edi_text) > 105 THEN CharAt(edi_text, 105)
                ELSE DEFAULT_SEG
        seg == IF count(edi_text, seg0) < 2 /\ count(edi_text, "\n") >= 1
               THEN "\n" ELSE seg0
    IN  <<seg, elem, comp>>

\* Mutant of detect_delimiters: component separator and terminator offsets swapped.
detect_delimiters_swapped_offsets(edi_text) ==
    LET isa == startswith(edi_text, <<"I", "S", "A">>) /\ Len(edi_text) >= 106
        elem == IF isa THEN CharAt(edi_text, 3) ELSE DEFAULT_ELEM
        comp == IF isa /\ Len(edi_text) > 105 THEN CharAt(edi_text, 105)
                ELSE DEFAULT_SUBELEM
        seg0 == IF isa /\ Len(edi_text) > 104 THEN CharAt(edi_text, 104)
                ELSE DEFAULT_SEG
        seg == IF count(edi_text, seg0) < 2 /\ count(edi_text, "\n") >= 2
               THEN "\n" ELSE seg0
    IN  <<seg, elem, comp>>

\* Returns <<seg, elem, comp>>.
detect_delimiters(edi_text) ==
    LET isa == startswith(edi_text, <<"I", "S", "A">>) /\ Len(edi_text) >= 106
        elem == IF isa THEN CharAt(edi_text, 3) ELSE DEFAULT_ELEM
        comp == IF isa /\ Len(edi_text) > 104 THEN CharAt(edi_text, 104)
                ELSE DEFAULT_SUBELEM
        seg0 == IF isa /\ Len(edi_text) > 105 THEN CharAt(edi_text, 105)
                ELSE DEFAULT_SEG
        seg == IF count(edi_text, seg0) < 2 /\ count(edi_text, "\n") >= 2
               THEN "\n" ELSE seg0
    IN  <<seg, elem, comp>>

\* Mutant of split_segments: the piece after the last terminator is discarded.
split_segments_drop_tail(edi_text, seg_t) ==
    LET text == strip(edi_text)
        pieces == IF seg_t = "\n"
                  THEN split(replace_crlf(text), "\n")
                  ELSE split(text, seg_t)
        parts == [i \in 1..(Len(pieces) - 1) |-> strip(pieces[i])]
    IN  SelectSeq(parts, LAMBDA p : p # << >>)

split_segments(edi_text, seg_t) ==
    LET text == strip(edi_text)
        pieces == IF seg_t = "\n"
                  THEN split(replace_crlf(text), "\n")
                  ELSE split(IF endswith(text, <<seg_t>>) THEN text
                             ELSE text \o <<seg_t>>, seg_t)
        parts == [i \in 1..Len(pieces) |-> strip(pieces[i])]
    IN  SelectSeq(parts, LAMBDA p : p # << >>)

parse_segments(edi_text, seg_t, elem_t) ==
    LET segments == split_segments(edi_text, seg_t)
    IN  [i \in 1..Len(segments) |-> split(segments[i], elem_t)]

(* ------------------------------------------------------------------ *)
(* Envelope validator                                                   *)
(* ------------------------------------------------------------------ *)

MissingSE == <<"SE segment missing for an ST.">>
BadSE01 == <<"SE01 missing or not integer.">>
CountMismatch(declared, actual) ==
    <<"SE01=", py_str(declared), " but counted ", py_str(actual),
      " segments between ST..SE.">>

\* Indexes (1-based here) of the segments whose tag, upper-cased, is `tag`.
tag_idx(segs, tag) ==
    SelectSeq([i \in 1..Len(segs) |-> i],
              LAMBDA i : Len(segs[i]) > 0 /\ upper(segs[i][1]) = tag)

\* try: declared = int(segs[ei][1])  except Exception: declared = 0
se01_ok(se) == Item(se, 1) # IndexError /\ int_parses(Item(se, 1))
se01_declared(se) == IF se01_ok(se) THEN int_value(Item(se, 1)) ELSE 0

\* The warnings one ST/SE pair adds (body of the for loop after `ei = se_idx[i]`).
pair_warnings(segs, si, ei) ==
    LET between == SubSeq(segs, si, ei)
        declared == se01_declared(segs[ei])
        actual == Len(between)
    IN  (IF se01_ok(segs[ei]) THEN << >> ELSE <<BadSE01>>)
        \o (IF declared # 0 /\ declared # actual
            THEN <<CountMismatch(declared, actual)>> ELSE << >>)

\* Mutant of paired_se: the first SE located after the i-th ST, when there is one.
paired_se_following(st_idx, se_idx, i) ==
    LET after == {k \in 1..Len(se_idx) : se_idx[k] > st_idx[i]}
    IN  IF after = {} THEN se_idx[i]
        ELSE se_idx[CHOOSE k \in after : \A m \in after : k <= m]

\* Which SE the i-th ST is checked against: ei = se_idx[i].
paired_se(st_idx, se_idx, i) == se_idx[i]

RECURSIVE validate_loop(_, _, _, _, _)
validate_loop(segs, st_idx, se_idx, i, warnings) ==
    IF i > Len(st_idx) THEN warnings
    ELSE IF i > Len(se_idx) THEN Append(warnings, MissingSE)
    ELSE validate_loop(segs, st_idx, se_idx, i + 1,
             warnings \o pair_warnings(segs, st_idx[i], paired_se(st_idx, se_idx, i)))

\* The delimiters validate_envelopes tokenizes with.
validate_delimiters(edi_text) == detect_delimiters(edi_text)

validate_envelopes(edi_text) ==
    LET d == validate_delimiters(edi_text)
        segs == parse_segments(edi_text, d[1], d[2])
    IN  validate_loop(segs, tag_idx(segs, <<"S", "T">>), tag_idx(segs, <<"S", "E">>),
                      1, << >>)

(* ------------------------------------------------------------------ *)
(* 271 parser                                                           *)
(* ------------------------------------------------------------------ *)

EB01_MAP ==
    (<<"1">> :> <<"A", "c", "t", "i", "v", "e", " ", "C", "o", "v", "e", "r", "a", "g", "e">>)
    @@ (<<"6">> :> <<"I", "n", "a", "c", "t", "i", "v", "e", " ", "C", "o", "v", "e", "r", "a",
        "g", "e">>)
    @@ (<<"7">> :> <<"P", "o", "l", "i", "c", "y", " ", "C", "a", "n", "c", "e", "l", "l", "e",
        "d">>)
    @@ (<<"8">> :> <<"P", "o", "l", "i", "c", "y", " ", "N", "o", "t", " ", "R", "e", "n", "e",
        "w", "e", "d">>)
    @@ (<<"I">> :> <<"N", "o", "n", "-", "C", "o", "v", "e", "r", "e", "d">>)
    @@ (<<"F">> :> <<"F", "i", "n", "a", "n", "c", "i", "a", "l", "/", "R", "e", "m", "a", "i",
        "n", "i", "n", "g", " ", "B", "e", "n", "e", "f", "i", "t", "s">>)

\* dict.get(key, default)
dict_get(map, key, default) == IF key \in DOMAIN map THEN map[key] ELSE default

\* repr() of a one-character str
py_repr(c) ==
    CASE c = "\n" -> <<"'", "\\", "n", "'">>
      [] c = "\r" -> <<"'", "\\", "r", "'">>
      [] c = "\t" -> <<"'", "\\", "t", "'">>
      [] c = "\\" -> <<"'", "\\", "\\", "'">>
      [] c = "'"  -> <<"\"", "'", "\"">>
      [] OTHER    -> <<"'", c, "'">>

\* Mutant of Elem: parts[i] read without the length guard.
Elem_unguarded(parts, i) == Item(parts, i)

\* parts[i] if len(parts) > i else ""
Elem(parts, i) == IF Len(parts) > i THEN Item(parts, i) ELSE << >>

\* The outcome of a call that raised instead of returning.
Raise(exc) == [exception |-> exc]
IsRaise(v) == DOMAIN v = {"exception"}

\* Some field of the dict under construction raised IndexError.
FieldRaised(rec) == \E f \in DOMAIN rec : rec[f] = IndexError

\* The terminator parse_271 tokenizes with (detection plus its own override).
parse_271_seg_t(edi_text) ==
    LET seg_t == detect_delimiters(edi_text)[1]
    IN  IF /\ ~contains(prefix(edi_text, 200), <<"I", "S", "A">>)
           /\ seg_t = DEFAULT_SEG
           /\ count(edi_text, DEFAULT_SEG) < 2
        THEN "\n" ELSE seg_t

org_fields(parts) ==
    [name |-> Elem(parts, 3), id_qual |-> Elem(parts, 8), id |-> Elem(parts, 9)]

person_fields(parts) ==
    [last |-> Elem(parts, 3), first |-> Elem(parts, 4),
     id_qual |-> Elem(parts, 8), id |-> Elem(parts, 9)]

EKeys == <<"E01", "E02", "E03", "E04", "E05", "E06", "E07",
           "E08", "E09", "E10", "E11", "E12", "E13">>

\* {f"E{i:02d}": (parts[i] if len(parts) > i else "") for i in range(1, 14)}
eb_raw(parts) ==
    [k \in {EKeys[i] : i \in 1..13} |->
        Elem(parts, CHOOSE i \in 1..13 : EKeys[i] = k)]

eb_row(parts) ==
    LET eb == eb_raw(parts)
    IN  [EB01 |-> eb.E01,
         Coverage |-> dict_get(EB01_MAP, eb.E01, << >>),
         EB02 |-> eb.E02, ServiceType |-> eb.E03, PlanDesc |-> eb.E04,
         TimePeriod |-> eb.E05, BenefitAmt |-> eb.E06, Percent |-> eb.E07,
         QtyQual |-> eb.E08, Qty |-> eb.E09, AuthInd |-> eb.E10,
         InPlan |-> eb.E11, Proc |-> eb.E12, Raw |-> eb]

aaa_row(parts) == [reject_code |-> Elem(parts, 3), followup_action |-> Elem(parts, 4)]

trace_fields(parts) == [trace_type |-> Elem(parts, 1), trace_num |-> Elem(parts, 2)]

\* One iteration of `for parts in segs` on the record built so far.
parse_step(out, parts) ==
    LET tag == upper(strip(parts[1]))
        ent == IF Len(parts) > 1 THEN upper(strip(Item(parts, 1))) ELSE << >>
    IN  IF IsRaise(out) \/ parts = << >> THEN out
        ELSE IF tag = <<"N", "M", "1">> THEN
            IF ent = IndexError THEN Raise("IndexError")
            ELSE IF ent = <<"P", "R">> THEN
                IF FieldRaised(org_fields(parts)) THEN Raise("IndexError")
                ELSE [out EXCEPT !.payer = org_fields(parts)]
            ELSE IF ent = <<"1", "P">> THEN
                IF FieldRaised(org_fields(parts)) THEN Raise("IndexError")
                ELSE [out EXCEPT !.provider = org_fields(parts)]
            ELSE IF ent = <<"I", "L">> THEN
                IF FieldRaised(person_fields(parts)) THEN Raise("IndexError")
                ELSE [out EXCEPT !.subscriber = person_fields(parts)]
            ELSE IF ent = <<"Q", "D">> THEN
                IF FieldRaised(person_fields(parts)) THEN Raise("IndexError")
                ELSE [out EXCEPT !.dependent = person_fields(parts)]
            ELSE out
        ELSE IF tag = <<"T", "R", "N">> THEN
            IF FieldRaised(trace_fields(parts)) THEN Raise("IndexError")
            ELSE [out EXCEPT !.trace = trace_fields(parts)]
        ELSE IF tag = <<"E", "B">> THEN
            IF FieldRaised(eb_raw(parts)) THEN Raise("IndexError")
            ELSE [out EXCEPT !.eb = Append(@, eb_row(parts))]
        ELSE IF tag = <<"A", "A", "A">> THEN
            IF FieldRaised(aaa_row(parts)) THEN Raise("IndexError")
            ELSE [out EXCEPT !.aaa = Append(@, aaa_row(parts))]
        ELSE IF tag = <<"D", "T", "P">> THEN [out EXCEPT !.dtp = Append(@, parts)]
        ELSE IF tag = <<"R", "E", "F">> THEN [out EXCEPT !.ref = Append(@, parts)]
        ELSE out

\* Mutant of parse_loop: a segment with any other tag is kept among the REF rows.
RECURSIVE parse_loop_keep_unknown(_, _, _)
parse_loop_keep_unknown(segs, i, out) ==
    IF i > Len(segs) THEN out
    ELSE parse_loop_keep_unknown(segs, i + 1,
             IF ~IsRaise(out) /\ segs[i] # << >>
                /\ upper(strip(segs[i][1])) \notin
                      {<<"N", "M", "1">>, <<"T", "R", "N">>, <<"E", "B">>,
                       <<"A", "A", "A">>, <<"D", "T", "P">>, <<"R", "E", "F">>}
             THEN [out EXCEPT !.ref = Append(@, segs[i])]
             ELSE parse_step(out, segs[i]))

RECURSIVE parse_loop(_, _, _)
parse_loop(segs, i, out) ==
    IF i > Len(segs) THEN out
    ELSE parse_loop(segs, i + 1, parse_step(out, segs[i]))

\* The record parse_271 starts from (before the loop; no _validation yet).
parse_271_start(seg_t, elem_t, segs) ==
    [payer |-> << >>, provider |-> << >>, subscriber |-> << >>, dependent |-> << >>,
     eb |-> << >>, aaa |-> << >>, trace |-> << >>, dtp |-> << >>, ref |-> << >>,
     _debug |-> [segment_terminator |-> py_repr(seg_t),
                 element_separator |-> py_repr(elem_t),
                 segment_count |-> Len(segs),
                 first_tags |-> [i \in 1..(IF Len(segs) < 12 THEN Len(segs) ELSE 12) |->
                                    IF Len(segs[i]) > 0 THEN segs[i][1] ELSE << >>]]]

parse_271(edi_text) ==
    LET d == detect_delimiters(edi_text)
        seg_t == parse_271_seg_t(edi_text)
        elem_t == d[2]
        segs == parse_segments(edi_text, seg_t, elem_t)
        out == parse_loop(segs, 1, parse_271_start(seg_t, elem_t, segs))
    IN  IF CharIndexError \in {d[1], d[2], d[3]} THEN Raise("IndexError")
        ELSE IF IsRaise(out) THEN out
        ELSE [k \in DOMAIN out \cup {"_validation"} |->
                 IF k = "_validation" THEN validate_envelopes(edi_text) ELSE out[k]]

(* ------------------------------------------------------------------ *)
(* Optional arguments, profiles and business objects                    *)
(* ------------------------------------------------------------------ *)

\* Optional[T]: None, or Some(v) for a supplied value v.
None == [is_none |-> TRUE]
Some(v) == [value |-> v]
is_none(o) == "is_none" \in DOMAIN o

\* Truthiness of an Optional[str] and of an Optional[Dict] (None and empty are falsy).
truthy_str(o) == ~is_none(o) /\ o.value # << >>
truthy_dict(o) == ~is_none(o) /\ DOMAIN o.value # {}

PAYER_PROFILES ==
    [default |->
        [preferred_eq |-> <<<<"3", "0">>>>, require_dmg |-> FALSE, expect_trn |-> TRUE,
         id_qual |-> <<"M", "I">>, subscriber_is_primary |-> TRUE, extra_ref |-> << >>,
         include_prv |-> FALSE, provider_taxonomy |-> << >>,
         include_addresses |-> FALSE],
     ACME_HEALTH_12345 |->
        [preferred_eq |-> <<<<"3", "0">>>>, require_dmg |-> TRUE, expect_trn |-> TRUE,
         id_qual |-> <<"M", "I">>, subscriber_is_primary |-> TRUE, extra_ref |-> <<<<"6", "P">>>>,
         include_prv |-> TRUE, provider_taxonomy |-> <<"2", "0", "7", "Q", "0", "0", "0", "0",
             "0", "X">>,
         include_addresses |-> TRUE]]

Party(last, first, middle, id_code, id_qual) ==
    [last |-> last, first |-> first, middle |-> middle,
     id_code |-> id_code, id_qual |-> id_qual]

Provider(name, npi) == [name |-> name, npi |-> npi]

(* ------------------------------------------------------------------ *)
(* Envelope segments (edi_x12)                                          *)
(* ------------------------------------------------------------------ *)

\* "" * 10
repeat_empty_10 == << >>

\* `now` is the clock read by datetime.utcnow(): its %y%m%d, %Y%m%d and %H%M renderings.
build_ISA(control_num, sender_id, receiver_id, elem_t, seg_t, now) ==
    join_with(elem_t, <<
        <<"I", "S", "A">>, <<"0", "0">>, repeat_empty_10, <<"0", "0">>, repeat_empty_10, <<"Z",
            "Z">>,
        ljust(sender_id, 15), <<"Z", "Z">>, ljust(receiver_id, 15),
        now.yymmdd, now.hhmm, <<"^">>, <<"0", "0", "5", "0", "1">>,
        zero_pad_9(control_num), <<"0">>, <<"T">>, <<":">> >>) \o <<seg_t>>

build_IEA(control_num, group_count, elem_t, seg_t) ==
    join_with(elem_t, <<<<"I", "E", "A">>, py_str(group_count), zero_pad_9(control_num)>>)
    \o <<seg_t>>

build_GS(control_num, sender_code, receiver_code, elem_t, seg_t, now) ==
    join_with(elem_t, <<
        <<"G", "S">>, <<"H", "S">>, sender_code, receiver_code, now.yyyymmdd, now.hhmm,
        py_str(control_num), <<"X">>, <<"0", "0", "5", "0", "1", "0", "X", "2", "7", "9", "A",
            "1">> >>) \o <<seg_t>>

build_GE(control_num, txn_count, elem_t, seg_t) ==
    join_with(elem_t, <<<<"G", "E">>, py_str(txn_count), py_str(control_num)>>) \o <<seg_t>>

build_ST(control_num, elem_t, seg_t) ==
    join_with(elem_t, <<<<"S", "T">>, <<"2", "7", "0">>, zero_pad_9(control_num)>>) \o <<seg_t>>

build_SE(control_num, segment_count, elem_t, seg_t) ==
    join_with(elem_t, <<<<"S", "E">>, py_str(segment_count), zero_pad_9(control_num)>>)
    \o <<seg_t>>

(* ------------------------------------------------------------------ *)
(* 270 builder                                                          *)
(* ------------------------------------------------------------------ *)

\* N3/N4 of an address dict (provider and subscriber blocks share the shape).
address_segments(addr, elem_t, seg_t) ==
    LET line1 == dict_get(addr, "line1", << >>)
        line2 == dict_get(addr, "line2", << >>)
        city == dict_get(addr, "city", << >>)
        state == dict_get(addr, "state", << >>)
        zipc == dict_get(addr, "zip", << >>)
    IN  (IF line1 # << >>
         THEN <<(IF line2 # << >>
                 THEN join_with(elem_t, <<<<"N", "3">>, line1, line2>>)
                 ELSE join_with(elem_t, <<<<"N", "3">>, line1>>)) \o <<seg_t>>>>
         ELSE << >>)
        \o (IF city # << >> \/ state # << >> \/ zipc # << >>
            THEN <<join_with(elem_t, <<<<"N", "4">>, city, state, zipc>>) \o <<seg_t>>>>
            ELSE << >>)

\* Mutant of dependent_NM1: the dependent is written with the subscriber's entity code.
dependent_NM1_as_subscriber(dependent, dep_id_qual, elem_t, seg_t) ==
    join_with(elem_t, <<<<"N", "M", "1">>, <<"I", "L">>, <<"1">>, dependent.last, dependent.first,
                        dependent.middle, << >>, dep_id_qual, dependent.id_code>>)
    \o <<seg_t>>

\* The NM1*QD segment of the 2100D block.
dependent_NM1(dependent, dep_id_qual, elem_t, seg_t) ==
    join_with(elem_t, <<<<"N", "M", "1">>, <<"Q", "D">>, <<"1">>, dependent.last, dependent.first,
                        dependent.middle, << >>, dep_id_qual, dependent.id_code>>)
    \o <<seg_t>>

\* r holds the arguments of build_270; the list `segs` as it stands before the SE
\* segment is appended.
build_270_segs(r, now) ==
    LET elem_t == r.elem_t
        seg_t == r.seg_t
        prof == IF truthy_dict(r.profile) THEN r.profile.value
                ELSE PAYER_PROFILES.default
        include_prv == IF is_none(r.include_prv)
                       THEN dict_get(prof, "include_prv", FALSE)
                       ELSE r.include_prv.value
        provider_taxonomy == IF ~truthy_str(r.provider_taxonomy)
                             THEN dict_get(prof, "provider_taxonomy", << >>)
                             ELSE r.provider_taxonomy.value
        include_addresses == IF is_none(r.include_addresses)
                             THEN dict_get(prof, "include_addresses", FALSE)
                             ELSE r.include_addresses.value
        Seg(elems) == join_with(elem_t, elems) \o <<seg_t>>
        envelope == <<
            build_ISA(r.isa_ctrl, <<"S", "E", "N", "D", "E", "R", "I", "D">>, <<"R", "E", "C",
                "E", "I", "V", "E", "R", "I", "D">>, elem_t, seg_t, now),
            build_GS(r.gs_ctrl, <<"S", "E", "N", "D", "E", "R">>, <<"R", "E", "C", "E", "I",
                "V", "E", "R">>, elem_t, seg_t, now),
            build_ST(r.st_ctrl, elem_t, seg_t) >>
        bht == <<Seg(<<<<"B", "H", "T">>, <<"0", "0", "2", "2">>, <<"1", "3">>, <<"C",
            "N">> \o py_str(r.st_ctrl),
                       now.yyyymmdd, now.hhmm>>)>>
        payer == <<
            Seg(<<<<"H", "L">>, <<"1">>, << >>, <<"2", "0">>, <<"1">>>>),
            Seg(<<<<"N", "M", "1">>, <<"P", "R">>, <<"2">>, <<"P", "A", "Y", "E", "R", " ", "N",
                "A", "M", "E">>, << >>, << >>, << >>,
                  <<"P", "I">>, r.payer_id>>) >>
        provider == <<
            Seg(<<<<"H", "L">>, <<"2">>, <<"1">>, <<"2", "1">>, <<"1">>>>),
            Seg(<<<<"N", "M", "1">>, <<"1", "P">>, <<"2">>, r.provider.name, << >>, << >>, << >>,
                  <<"X", "X">>, r.provider.npi>>) >>
        prv == IF include_prv /\ provider_taxonomy # << >>
               THEN <<Seg(<<<<"P", "R", "V">>, <<"P", "E">>, <<"P", "X",
                   "C">>, provider_taxonomy>>)>>
               ELSE << >>
        provider_n3n4 == IF include_addresses /\ truthy_dict(r.provider_addr)
                         THEN address_segments(r.provider_addr.value, elem_t, seg_t)
                         ELSE << >>
        extra_ref == dict_get(prof, "extra_ref", << >>)
        refs == [i \in 1..Len(extra_ref) |->
                    Seg(<<<<"R", "E", "F">>, extra_ref[i], <<"P", "L", "A", "C", "E", "H", "O",
                        "L", "D", "E", "R">>>>)]
        has_child == IF ~is_none(r.dependent) THEN <<"1">> ELSE <<"0">>
        sub_id_qual == dict_get(prof, "id_qual", <<"M", "I">>)
        subscriber == <<
            Seg(<<<<"H", "L">>, <<"3">>, <<"2">>, <<"2", "2">>, has_child>>),
            Seg(<<<<"N", "M", "1">>, <<"I", "L">>, <<"1">>, r.subscriber.last, r.subscriber.first,
                  r.subscriber.middle, << >>, sub_id_qual, r.subscriber.id_code>>) >>
        trn == IF dict_get(prof, "expect_trn", FALSE) /\ truthy_str(r.trn_trace)
               THEN <<Seg(<<<<"T", "R", "N">>, <<"2">>, r.trn_trace.value>>)>>
               ELSE << >>
        subscriber_n3n4 == IF include_addresses /\ truthy_dict(r.subscriber_addr)
                           THEN address_segments(r.subscriber_addr.value, elem_t, seg_t)
                           ELSE << >>
        dmg == IF \/ dict_get(prof, "require_dmg", FALSE)
                  \/ truthy_str(r.dmg_dob) \/ truthy_str(r.dmg_gender)
               THEN <<Seg(<<<<"D", "M", "G">>, <<"D", "8">>,
                            IF truthy_str(r.dmg_dob) THEN r.dmg_dob.value
                            ELSE <<"1", "9", "0", "0", "0", "1", "0", "1">>,
                            IF truthy_str(r.dmg_gender) THEN r.dmg_gender.value
                            ELSE <<"U">>>>)>>
               ELSE << >>
        dtp == IF truthy_str(r.date_end)
               THEN <<Seg(<<<<"D", "T", "P">>, <<"2", "9", "1">>, <<"R", "D", "8">>,
                            r.date_start \o <<"-">> \o r.date_end.value>>)>>
               ELSE <<Seg(<<<<"D", "T", "P">>, <<"2", "9", "1">>, <<"D", "8">>, r.date_start>>)>>
        dependent == IF ~is_none(r.dependent)
                     THEN <<Seg(<<<<"H", "L">>, <<"4">>, <<"3">>, <<"2", "3">>, <<"0">>>>),
                            dependent_NM1(r.dependent.value,
                                          dict_get(prof, "id_qual", <<"M", "I">>),
                                          elem_t, seg_t)>>
                     ELSE << >>
        eq_list == IF r.service_types # << >> THEN r.service_types
                   ELSE dict_get(prof, "preferred_eq", <<<<"3", "0">>>>)
        eqs == [i \in 1..Len(eq_list) |-> Seg(<<<<"E", "Q">>, eq_list[i]>>)]
        segs == envelope \o bht \o payer \o provider \o prv \o provider_n3n4 \o refs
                \o subscriber \o trn \o subscriber_n3n4 \o dmg \o dtp \o dependent
                \o eqs
    IN  segs

\* Mutant of segment_count_270: the terminators of the whole list, envelope included.
segment_count_270_whole(segs, seg_t) ==
    count(join(segs), seg_t) + 1

\* SE01: segs[2:] joined, its terminators counted, plus one.
segment_count_270(segs, seg_t) ==
    count(join(SubSeq(segs, 3, Len(segs))), seg_t) + 1

\* build_270: the segments, then SE, GE and IEA, joined into the document.
build_270(r, now) ==
    LET elem_t == r.elem_t
        seg_t == r.seg_t
        segs == build_270_segs(r, now)
        seg_count == segment_count_270(segs, seg_t)
    IN  join(segs \o <<build_SE(r.st_ctrl, seg_count, elem_t, seg_t),
                       build_GE(r.gs_ctrl, 1, elem_t, seg_t),
                       build_IEA(r.isa_ctrl, 1, elem_t, seg_t)>>)

(* ------------------------------------------------------------------ *)
(* 837, 835 and 276 builders (fixed templates)                          *)
(* ------------------------------------------------------------------ *)


\* edi_837.build_837: every line appended to `edi`, in order; `now` is the clock read.
build_837(isa_ctrl, gs_ctrl, st_ctrl, sender_id, receiver_id, billing_provider_npi, patient_name, patient_id, claim_id, claim_amount, dos_start, dos_end, now) ==
    LET dos_segment ==
            IF ~truthy_str(dos_end)
            THEN <<"D", "T", "P", "*", "4", "7", "2", "*", "D", "8", "*">>
                 \o dos_start
                 \o <<"~">>
            ELSE <<"D", "T", "P", "*", "4", "7", "2", "*", "R", "D", "8", "*">>
                 \o dos_start
                 \o <<"-">>
                 \o dos_end.value
                 \o <<"~">>
    IN
    join(<<
      (<<"I", "S", "A", "*", "0", "0", "*", " ", " ", " ", " ", " ", " ", " ", " ", " ", " ",
          "*", "0", "0", "*", " ", " ", " ", " ", " ", " ", " ", " ", " ", " ", "*", "Z", "Z", "*">>
         \o ljust(sender_id, 15)
         \o <<"*", "Z", "Z", "*">>
         \o ljust(receiver_id, 15)
         \o <<"*">>
         \o now.yymmdd
         \o <<"*">>
         \o now.hhmm
         \o <<"*", "^", "*", "0", "0", "5", "0", "1", "*">>
         \o zero_pad_9(isa_ctrl)
         \o <<"*", "0", "*", "T", "*", ":", "~", "\n">>),
      (<<"G", "S", "*", "H", "C", "*">>
         \o sender_id
         \o <<"*">>
         \o receiver_id
         \o <<"*">>
         \o now.yyyymmdd
         \o <<"*">>
         \o now.hhmm
         \o <<"*">>
         \o py_str(gs_ctrl)
         \o <<"*", "X", "*", "0", "0", "5", "0", "1", "0", "X", "2", "2", "2", "A", "1", "~",
             "\n">>),
      (<<"S", "T", "*", "8", "3", "7", "*">>
         \o py_str(st_ctrl)
         \o <<"*", "0", "0", "5", "0", "1", "0", "X", "2", "2", "2", "A", "1", "~", "\n">>),
      (<<"B", "H", "T", "*", "0", "0", "1", "9", "*", "0", "0", "*">>
         \o claim_id
         \o <<"*">>
         \o now.yyyymmdd
         \o <<"*">>
         \o now.hhmm
         \o <<"*", "C", "H", "~", "\n">>),
      (<<"N", "M", "1", "*", "4", "1", "*", "2", "*", "B", "I", "L", "L", "I", "N", "G", " ",
          "P", "R", "O", "V", "I", "D", "E", "R", "*", "*", "*", "*", "*", "4", "6", "*", "1",
          "2", "3", "4", "5", "~", "\n">>),
      (<<"P", "E", "R", "*", "I", "C", "*", "B", "I", "L", "L", "I", "N", "G", " ", "O", "F",
          "F", "I", "C", "E", "*", "T", "E", "*", "8", "0", "0", "5", "5", "5", "1", "2", "1",
          "2", "~", "\n">>),
      (<<"N", "M", "1", "*", "4", "0", "*", "2", "*", "P", "A", "Y", "E", "R", " ", "N", "A",
          "M", "E", "*", "*", "*", "*", "*", "4", "6", "*", "9", "9", "9", "9", "9", "~", "\n">>),
      (<<"H", "L", "*", "1", "*", "*", "2", "0", "*", "1", "~", "\n">>),
      (<<"N", "M", "1", "*", "8", "5", "*", "2", "*", "B", "U", "D", "D", "H", "A", " ", "C",
          "L", "I", "N", "I", "C", "*", "*", "*", "*", "*", "X", "X", "*">>
         \o billing_provider_npi
         \o <<"~", "\n">>),
      (<<"N", "3", "*", "1", "2", "3", " ", "M", "A", "I", "N", " ", "S", "T", "R", "E", "E",
          "T", "~", "\n", "N", "4", "*", "L", "U", "C", "K", "N", "O", "W", "*", "U", "P", "*",
          "2", "2", "6", "0", "0", "1", "~", "\n">>),
      (<<"R", "E", "F", "*", "E", "I", "*", "1", "2", "3", "4", "5", "6", "7", "8", "9", "~",
          "\n">>),
      (<<"H", "L", "*", "2", "*", "1", "*", "2", "2", "*", "0", "~", "\n">>),
      (<<"N", "M", "1", "*", "I", "L", "*", "1", "*">>
         \o patient_name
         \o <<"*", "*", "*", "*", "M", "I", "*">>
         \o patient_id
         \o <<"~", "\n">>),
      dos_segment,
      (<<"C", "L", "M", "*">>
         \o claim_id
         \o <<"*">>
         \o claim_amount
         \o <<"*", "*", "*", "1", "1", ":", "B", ":", "1", "*", "Y", "*", "A", "*", "Y", "*",
             "I", "~", "\n">>),
      (<<"H", "I", "*", "B", "K", ":", "1", "2", "3", "4", "5", "~", "\n">>),
      (<<"L", "X", "*", "1", "~", "\n">>),
      (<<"S", "V", "1", "*", "H", "C", ":", "9", "9", "2", "1", "3", "*", "1", "0", "0", "*",
          "U", "N", "*", "1", "*", "*", "*", "1", "~", "\n">>),
      (<<"S", "E", "*", "2", "0", "*", "{", "s", "t", "_", "c", "t", "r", "l", "}", "~", "\n">>),
      (<<"G", "E", "*", "1", "*">>
         \o py_str(gs_ctrl)
         \o <<"~", "\n">>),
      (<<"I", "E", "A", "*", "1", "*">>
         \o zero_pad_9(isa_ctrl)
         \o <<"~">>)
    >>)

\* edi_835.build_835
build_835(isa_ctrl, gs_ctrl, st_ctrl, payer_name, payer_id, provider_npi, claim_id, patient_name, paid_amount, check_number, payment_date, now) ==
    join(<<
      (<<"I", "S", "A", "*", "0", "0", "*", " ", " ", " ", " ", " ", " ", " ", " ", " ", " ",
          "*", "0", "0", "*", " ", " ", " ", " ", " ", " ", " ", " ", " ", " ", "*", "Z", "Z", "*">>
         \o ljust(payer_id, 15)
         \o <<"*", "Z", "Z", "*", "R", "E", "C", "E", "I", "V", "E", "R", "I", "D", " ", " ",
             " ", " ", " ", "*">>
         \o now.yymmdd
         \o <<"*">>
         \o now.hhmm
         \o <<"*", "^", "*", "0", "0", "5", "0", "1", "*">>
         \o zero_pad_9(isa_ctrl)
         \o <<"*", "0", "*", "T", "*", ":", "~", "\n">>),
      (<<"G", "S", "*", "H", "P", "*">>
         \o payer_id
         \o <<"*", "R", "E", "C", "E", "I", "V", "E", "R", "*">>
         \o now.yyyymmdd
         \o <<"*">>
         \o now.hhmm
         \o <<"*">>
         \o py_str(gs_ctrl)
         \o <<"*", "X", "*", "0", "0", "5", "0", "1", "0", "X", "2", "2", "1", "A", "1", "~",
             "\n">>),
      (<<"S", "T", "*", "8", "3", "5", "*">>
         \o py_str(st_ctrl)
         \o <<"*", "0", "0", "5", "0", "1", "0", "X", "2", "2", "1", "A", "1", "~", "\n">>),
      (<<"B", "P", "R", "*", "I", "*">>
         \o paid_amount
         \o <<"*", "C", "*", "C", "H", "K", "*", "0", "1", "*", "9", "9", "9", "9", "9", "9",
             "9", "9", "9", "*", "D", "A", "*", "1", "2", "3", "4", "5", "6", "7", "8", "9", "*">>
         \o now.yyyymmdd
         \o <<"~", "\n">>),
      (<<"T", "R", "N", "*", "1", "*">>
         \o check_number
         \o <<"*">>
         \o payer_id
         \o <<"~", "\n">>),
      (<<"D", "T", "M", "*", "4", "0", "5", "*">>
         \o payment_date
         \o <<"~", "\n">>),
      (<<"N", "1", "*", "P", "R", "*">>
         \o payer_name
         \o <<"*", "P", "I", "*">>
         \o payer_id
         \o <<"~", "\n">>),
      (<<"N", "1", "*", "P", "E", "*", "B", "U", "D", "D", "H", "A", " ", "C", "L", "I", "N",
          "I", "C", "*", "X", "X", "*">>
         \o provider_npi
         \o <<"~", "\n">>),
      (<<"C", "L", "P", "*">>
         \o claim_id
         \o <<"*", "1", "*", "1", "5", "0", "*">>
         \o paid_amount
         \o <<"*", "*", "M", "C", "*">>
         \o patient_name
         \o <<"*", "1", "2", "*", "1", "~", "\n">>),
      (<<"C", "A", "S", "*", "C", "O", "*", "4", "5", "*", "5", "0", "~", "\n">>),
      (<<"N", "M", "1", "*", "Q", "C", "*", "1", "*">>
         \o patient_name
         \o <<"*", "*", "*", "*", "M", "I", "*", "1", "2", "3", "4", "5", "6", "7", "8", "9",
             "~", "\n">>),
      (<<"D", "T", "M", "*", "2", "3", "2", "*">>
         \o payment_date
         \o <<"~", "\n">>),
      (<<"D", "T", "M", "*", "2", "3", "3", "*">>
         \o payment_date
         \o <<"~", "\n">>),
      (<<"S", "E", "*", "1", "2", "*", "{", "s", "t", "_", "c", "t", "r", "l", "}", "~", "\n">>),
      (<<"G", "E", "*", "1", "*">>
         \o py_str(gs_ctrl)
         \o <<"~", "\n">>),
      (<<"I", "E", "A", "*", "1", "*">>
         \o zero_pad_9(isa_ctrl)
         \o <<"~">>)
    >>)

\* claim_status_app.build_276
build_276(isa_ctrl, gs_ctrl, st_ctrl, payer_id, provider_name, provider_npi, subscriber_last, subscriber_first, subscriber_id, claim_control_number, date_of_service, now) ==
    LET dos == IF truthy_str(date_of_service) THEN date_of_service.value
               ELSE now.yyyymmdd
        bht03 == IF claim_control_number # << >> THEN claim_control_number
                 ELSE py_str(st_ctrl)
    IN
    join(<<
      (<<"I", "S", "A", "*", "0", "0", "*", " ", " ", " ", " ", " ", " ", " ", " ", " ", " ",
          "*", "0", "0", "*", " ", " ", " ", " ", " ", " ", " ", " ", " ", " ", "*", "Z", "Z",
          "*", "S", "E", "N", "D", "E", "R", "I", "D", " ", " ", " ", " ", " ", " ", " ", "*",
          "Z", "Z", "*", "R", "E", "C", "E", "I", "V", "E", "R", "I", "D", " ", " ", " ", " ",
          " ", "*">>
         \o now.yymmdd
         \o <<"*">>
         \o now.hhmm
         \o <<"*", "^", "*", "0", "0", "5", "0", "1", "*">>
         \o zero_pad_9(isa_ctrl)
         \o <<"*", "0", "*", "T", "*", ":", "~", "\n">>),
      (<<"G", "S", "*", "H", "N", "*", "S", "E", "N", "D", "E", "R", "*", "R", "E", "C", "E",
          "I", "V", "E", "R", "*">>
         \o now.yyyymmdd
         \o <<"*">>
         \o now.hhmm
         \o <<"*">>
         \o py_str(gs_ctrl)
         \o <<"*", "X", "*", "0", "0", "5", "0", "1", "0", "X", "2", "1", "2", "~", "\n">>),
      (<<"S", "T", "*", "2", "7", "6", "*">>
         \o py_str(st_ctrl)
         \o <<"*", "0", "0", "5", "0", "1", "0", "X", "2", "1", "2", "~", "\n">>),
      (<<"B", "H", "T", "*", "0", "0", "1", "0", "*", "1", "3", "*">>
         \o bht03
         \o <<"*">>
         \o now.yyyymmdd
         \o <<"*">>
         \o now.hhmm
         \o <<"~", "\n">>),
      (<<"H", "L", "*", "1", "*", "*", "2", "0", "*", "1", "~", "\n">>),
      (<<"N", "M", "1", "*", "P", "R", "*", "2", "*", "P", "A", "Y", "E", "R", " ", "N", "A",
          "M", "E", "*", "*", "*", "*", "P", "I", "*">>
         \o payer_id
         \o <<"~", "\n">>),
      (<<"H", "L", "*", "2", "*", "1", "*", "2", "1", "*", "1", "~", "\n">>),
      (<<"N", "M", "1", "*", "4", "1", "*", "2", "*">>
         \o provider_name
         \o <<"*", "*", "*", "*", "*", "X", "X", "*">>
         \o provider_npi
         \o <<"~", "\n">>),
      (<<"H", "L", "*", "3", "*", "2", "*", "1", "9", "*", "0", "~", "\n">>),
      (<<"N", "M", "1", "*", "I", "L", "*", "1", "*">>
         \o subscriber_last
         \o <<"*">>
         \o subscriber_first
         \o <<"*", "*", "*", "*", "M", "I", "*">>
         \o subscriber_id
         \o <<"~", "\n">>),
      (<<"D", "T", "P", "*", "4", "7", "2", "*", "D", "8", "*">>
         \o dos
         \o <<"~", "\n">>),
      (<<"S", "E", "*", "1", "2", "*">>
         \o py_str(st_ctrl)
         \o <<"~", "\n">>),
      (<<"G", "E", "*", "1", "*">>
         \o py_str(gs_ctrl)
         \o <<"~", "\n">>),
      (<<"I", "E", "A", "*", "1", "*">>
         \o zero_pad_9(isa_ctrl)
         \o <<"~">>)
    >>)

(* ------------------------------------------------------------------ *)
(* Reporting normalizer                                                 *)
(* ------------------------------------------------------------------ *)

UpperToLower ==
    [A |-> "a", B |-> "b", C |-> "c", D |-> "d", E |-> "e", F |-> "f",
     G |-> "g", H |-> "h", I |-> "i", J |-> "j", K |-> "k", L |-> "l",
     M |-> "m", N |-> "n", O |-> "o", P |-> "p", Q |-> "q", R |-> "r",
     S |-> "s", T |-> "t", U |-> "u", V |-> "v", W |-> "w", X |-> "x",
     Y |-> "y", Z |-> "z"]

\* str.lower()
lower(text) ==
    [i \in 1..Len(text) |->
        IF text[i] \in DOMAIN UpperToLower THEN UpperToLower[text[i]] ELSE text[i]]

\* The summary before the first row: every field None.
summary_start ==
    [Active |-> None, DeductibleRemaining |-> None, CoinsurancePercent |-> None,
     CopayAmount |-> None, InNetwork |-> None]

\* amt = r.get("BenefitAmt") or r["Raw"].get("E06", "")
row_amount(r) ==
    IF r.BenefitAmt # << >> THEN r.BenefitAmt ELSE dict_get(r.Raw, "E06", << >>)

\* One pass of the loop body over the row r.
summary_step(summary, r) ==
    LET amt == row_amount(r)
        s1 == IF r.EB01 = <<"1">> THEN [summary EXCEPT !.Active = Some(<<"Y", "e", "s">>)]
              ELSE summary
        s2 == IF contains(lower(r.PlanDesc), <<"d", "e", "d", "u", "c", "t">>) /\ amt # << >>
              THEN [s1 EXCEPT !.DeductibleRemaining = Some(amt)] ELSE s1
        s3 == IF r.Percent # << >>
              THEN [s2 EXCEPT !.CoinsurancePercent = Some(r.Percent)] ELSE s2
        s4 == IF contains(lower(r.PlanDesc), <<"c", "o", "p", "a", "y">>) /\ amt # << >>
              THEN [s3 EXCEPT !.CopayAmount = Some(amt)] ELSE s3
    IN  IF r.InPlan # << >>
        THEN [s4 EXCEPT !.InNetwork =
                 IF r.InPlan = <<"Y">> THEN Some(<<"Y", "e", "s">>)
                 ELSE IF r.InPlan = <<"N">> THEN Some(<<"N", "o">>) ELSE None]
        ELSE s4

RECURSIVE summary_loop(_, _, _)
summary_loop(eb_rows, i, summary) ==
    IF i > Len(eb_rows) THEN summary
    ELSE summary_loop(eb_rows, i + 1, summary_step(summary, eb_rows[i]))

normalize_eb_for_reporting(eb_rows) == summary_loop(eb_rows, 1, summary_start)

(* ------------------------------------------------------------------ *)
(* The "Generate 270" call of the application                           *)
(* ------------------------------------------------------------------ *)

\* The parameter names of build_270.
build_270_parameters ==
    {"isa_ctrl", "gs_ctrl", "st_ctrl", "payer_id", "provider", "subscriber", "dependent",
     "service_types", "date_start", "date_end", "profile", "trn_trace", "dmg_dob",
     "dmg_gender", "include_prv", "provider_taxonomy", "include_addresses",
     "provider_addr", "subscriber_addr", "elem_t", "seg_t"}

\* The keywords the application passes to build_270.
generate_270_keywords ==
    {"isa_ctrl", "gs_ctrl", "st_ctrl", "payer_id", "provider", "subscriber", "dependent",
     "service_types", "date_start", "date_end", "profile", "trn_trace", "dmg_dob",
     "dmg_gender", "include_prv", "provider_taxonomy", "include_addresses",
     "provider_addr", "subscriber_addr", "dep_dmg_dob", "dep_dmg_gender"}

(* ------------------------------------------------------------------ *)
(* 277 parser                                                           *)
(* ------------------------------------------------------------------ *)

\* d[k] = v
dict_set(d, k, v) == [x \in DOMAIN d \cup {k} |-> IF x = k THEN v ELSE d[x]]

\* d.setdefault(k, v), as the dict it leaves behind
dict_setdefault(d, k, v) == IF k \in DOMAIN d THEN d ELSE dict_set(d, k, v)

\* parts[1:]
rest(parts) == SubSeq(parts, 2, Len(parts))

parse_277_seg_t(edi_text) ==
    IF count(edi_text, "~") < 2 /\ count(edi_text, "\n") >= 2 THEN "\n" ELSE "~"

\* lines: the stripped, non-empty pieces of the text.
parse_277_lines(edi_text) ==
    LET pieces == split(replace_crlf(edi_text), parse_277_seg_t(edi_text))
        stripped == [i \in 1..Len(pieces) |-> strip(pieces[i])]
    IN  SelectSeq(stripped, LAMBDA l : l # << >>)

\* The dict a CLP segment starts.
claim_row(parts) ==
    [ClaimID |-> Elem(parts, 1), ClaimStatus |-> Elem(parts, 2),
     TotalCharge |-> Elem(parts, 3), TotalPaid |-> Elem(parts, 4)]

\* One pass of the loop body; st holds `rows` and `current`.
parse_277_step(st, line) ==
    LET parts == split(line, "*")
        tag == upper(parts[1])
        current == st.current
    IN  IF tag = <<"T", "R", "N">>
        THEN [st EXCEPT !.current = dict_setdefault(current, "TraceNumber", Elem(parts, 2))]
        ELSE IF tag = <<"C", "L", "P">>
        THEN [rows |-> IF DOMAIN current # {} THEN Append(st.rows, current) ELSE st.rows,
              current |-> claim_row(parts)]
        ELSE IF tag = <<"S", "T", "C">>
        THEN [st EXCEPT !.current =
                 dict_set(dict_set(current, "StatusComposite", Elem(parts, 1)),
                          "StatusDate", Elem(parts, 2))]
        ELSE IF tag = <<"N", "M", "1">> /\ Len(parts) > 1 /\ parts[2] = <<"Q", "C">>
        THEN [st EXCEPT !.current =
                 dict_set(dict_set(current, "PatientLast", Elem(parts, 3)),
                          "PatientFirst", Elem(parts, 4))]
        ELSE IF tag = <<"D", "T", "P">>
        THEN [st EXCEPT !.current =
                 dict_set(current, "Dates",
                          Append(dict_get(current, "Dates", << >>), rest(parts)))]
        ELSE st

RECURSIVE parse_277_loop(_, _, _)
parse_277_loop(lines, i, st) ==
    IF i > Len(lines) THEN st
    ELSE parse_277_loop(lines, i + 1, parse_277_step(st, lines[i]))

\* pd.DataFrame(rows): one frame row per dict, in list order.
DataFrame(rows) == [rows |-> rows]

parse_277(edi_text) ==
    LET st == parse_277_loop(parse_277_lines(edi_text), 1,
                             [rows |-> << >>, current |-> << >>])
    IN  DataFrame(IF DOMAIN st.current # {} THEN Append(st.rows, st.current)
                  ELSE st.rows)

(* ------------------------------------------------------------------ *)
(* Inputs                                                               *)
(* ------------------------------------------------------------------ *)

MaxSegments == 3
MaxNoiseLen == 3
MaxServiceTypes == 2

\* Clock readings (datetime.utcnow() / datetime.now()) a call may see.
Clocks == {[yymmdd |-> <<"2", "5", "0", "1", "0", "2">>, yyyymmdd |-> <<"2", "0", "2", "5", "0",
    "1", "0", "2">>, hhmm |-> <<"0", "3", "0", "4">>]}

\* Segments the composed documents are made of (without terminator).
SegmentPool ==
    << <<"S", "T", "*", "2", "7", "0", "*", "1">>, <<"S", "E", "*", "2", "*", "1">>, <<"S", "E",
        "*", "0", "*", "1">>, <<"S", "E", "*", "X", "*", "1">>,
       <<"E", "B", "*", "1">>, <<"E", "B", "*", "Z">>, <<"H", "L", "*", "2", "*", "1", "*", "2",
           "3", "*", "0">>, <<"Z", "Z", "*", "9">> >>

\* How a composed document ends each segment.
TerminatorStyles == {<<"~">>, <<"\n">>}

SegmentLists ==
    UNION {[1..n -> 1..Len(SegmentPool)] : n \in 1..MaxSegments}

ComposedDocs ==
    {join([i \in 1..Len(l) |-> SegmentPool[l[i]] \o t]) :
        l \in SegmentLists, t \in TerminatorStyles}

NoiseAlphabet == {"S", "E", "*", "~", "\n", "1"}

NoiseDocs == UNION {[1..n -> NoiseAlphabet] : n \in 0..MaxNoiseLen}

\* An interchange header of `len` characters with the delimiters at offsets 3,
\* 104 and 105 (when long enough), followed by two segments.
IsaHeader(elem, comp, seg, len) ==
    SubSeq(<<"I", "S", "A">> \o <<elem>> \o [i \in 1..100 |-> "0"] \o <<comp, seg>>, 1, len)

IsaDocs ==
    {IsaHeader(e, c, s, n)
        \o join_with(s, <<join_with(e, <<<<"S", "T">>, <<"2", "7", "0">>, <<"1">>>>),
                          join_with(e, <<<<"E", "B">>, <<"1">>>>),
                          join_with(e, <<<<"S", "E">>, <<"3">>, <<"1">>>>)>>) \o <<s>> :
        e \in {"*", "|"}, c \in {":"}, s \in {"~", "\n", "E"}, n \in {105, 106}}

\* The context-tagging example: payer HL, then a dependent HL and its benefit row.
ContextDoc == <<"H", "L", "*", "1", "*", "*", "2", "0", "*", "1", "~", "N", "M", "1", "*", "P",
    "R", "*", "2", "*", "A", "C", "M", "E", "~", "H", "L", "*", "2", "*", "1", "*", "2", "3",
        "*", "0", "~", "N", "M", "1", "*", "Q", "D", "*", "1", "*", "S", "M", "I", "T", "H",
            "~", "E", "B", "*", "1", "~">>

\* The positional-skip example.
ScenarioDoc == <<"E", "B", "*", "1", "*", "I", "N", "D", "*", "3", "0", "*", "*", "*", "1", "0",
    "0", ".", "0", "0", "~">>

SingleEBDoc == <<"E", "B", "*", "1", "~">>

\* Every parsed tag with fewer elements than the parser reads.
ShortElementsDoc == <<"N", "M", "1", "~", "T", "R", "N", "~", "E", "B", "~", "A", "A", "A", "~",
    "D", "T", "P", "~", "R", "E", "F", "~", "N", "M", "1", "*", "P", "R", "~", "N", "M", "1",
        "*", "I", "L", "*", "1", "~", "N", "M", "1", "*", "1", "P", "~", "N", "M", "1", "*",
            "Q", "D", "~">>

\* One "~" and one newline: parse_271 and validate_envelopes tokenize it differently.
SplitEnvelopeDoc == <<"S", "T", "*", "2", "7", "0", "*", "1", "\n", "S", "E", "*", "2", "*",
    "1", "~">>

\* Benefit rows for the summary: two "deduct" rows (the later one without an amount),
\* two rows with a percent, two "copay" rows, network indicators Y, N and W.
StaleAmountDoc == <<"E", "B", "*", "1", "*", "I", "N", "D", "*", "3", "0", "*", "D", "e", "d",
    "u", "c", "t", "i", "b", "l", "e", "*", "*", "5", "0", "0", "*", "1", "0", "*", "*", "*",
    "*", "Y", "~", "E", "B", "*", "C", "*", "I", "N", "D", "*", "3", "0", "*", "D", "E", "D",
    "U", "C", "T", "*", "*", "*", "2", "0", "*", "*", "*", "*", "N", "~", "E", "B", "*", "B",
    "*", "*", "3", "0", "*", "c", "o", "p", "a", "y", "*", "*", "2", "5", "~", "E", "B", "*",
    "B", "*", "*", "3", "0", "*", "C", "O", "P", "A", "Y", "*", "*", "3", "0", "*", "*", "*",
    "*", "*", "W", "~">>

\* Two "deduct" rows and two "copay" rows, all with amounts, the last network flag Y.
LastAmountDoc == <<"E", "B", "*", "C", "*", "I", "N", "D", "*", "3", "0", "*", "d", "e", "d",
    "u", "c", "t", "i", "b", "l", "e", "*", "*", "5", "0", "0", "*", "1", "0", "~", "E", "B",
    "*", "C", "*", "I", "N", "D", "*", "3", "0", "*", "D", "E", "D", "U", "C", "T", "*", "*",
    "3", "0", "0", "*", "2", "0", "*", "*", "*", "*", "Y", "~", "E", "B", "*", "B", "*", "*",
    "3", "0", "*", "c", "o", "p", "a", "y", "*", "*", "2", "5", "~", "E", "B", "*", "B", "*",
    "*", "3", "0", "*", "C", "O", "P", "A", "Y", "*", "*", "3", "0", "~">>

\* Line-oriented document with "\r\n" line ends and a blank line.
CrLfDoc == <<"S", "T", "*", "2", "7", "0", "*", "1", "\r", "\n", "E", "B", "*", "1", "\r", "\n",
    " ", "\r", "\n", "S", "E", "*", "3", "*", "1", "\r", "\n">>

\* The "newline-only document" scenario: two "~" and one newline.
NewlineScenarioDoc == <<"S", "T", "*", "2", "7", "0", "*", "0", "0", "0", "1", "~", "\n", "S",
    "E", "*", "1", "2", "*", "0", "0", "0", "1", "~">>

FixedDocs ==
    { ContextDoc, ScenarioDoc, SingleEBDoc, ShortElementsDoc, SplitEnvelopeDoc,
      NewlineScenarioDoc, StaleAmountDoc, LastAmountDoc, CrLfDoc,
      <<"I", "S", "A", "*">>,
      <<"S", "T", "*", "2", "7", "1", "*", "1", "~", "N", "M", "1", "*", "P", "R", "*", "2",
          "*", "A", "C", "M", "E", "*", "*", "*", "*", "*", "P", "I", "*", "7", "7", "~", "N",
              "M", "1", "*", "1", "P", "*", "2", "*", "C", "L", "I", "N", "I", "C", "*", "*",
                  "*", "*", "*", "X", "X", "*", "1", "2", "3", "~", "N", "M", "1", "*", "I",
                      "L", "*", "1", "*", "D", "O", "E", "*", "J", "*", "*", "*", "*", "M", "I",
                          "*", "W", "1", "~", "T", "R", "N", "*", "2", "*", "T", "1", "~", "E",
                              "B", "*", "6", "*", "I", "N", "D", "*", "3", "0", "*", "P", "L",
                                  "A", "N", "~", "A", "A", "A", "*", "N", "*", "*", "7", "2",
                                      "*", "C", "~", "D", "T", "P", "*", "2", "9", "1", "*",
                                          "D", "8", "*", "2", "0", "2", "5", "0", "1", "0", "1",
                                              "~", "R", "E", "F", "*", "6", "P", "*", "G", "1",
                                                  "~", "S", "E", "*", "1", "0", "*", "1", "~">> }

\* Segments of claim status responses (without terminator).
Segment277Pool ==
    << <<"T", "R", "N", "*", "1", "*", "T", "1">>, <<"C", "L", "P", "*", "C", "1", "*", "1",
        "*", "1", "0", "0", "*", "5", "0">>, <<"c", "l", "p", "*", "C", "2">>, <<"S", "T", "C",
        "*", "A", "1", ":", "2", "0", "*", "2", "0", "2", "5", "0", "1", "0", "1">>,
       <<"N", "M", "1", "*", "Q", "C", "*", "1", "*", "D", "O", "E", "*", "J">>, <<"D", "T",
           "P", "*", "4", "7", "2", "*", "D", "8", "*", "2", "0", "2", "5", "0", "1", "0", "1">> >>

Segment277Lists ==
    UNION {[1..n -> 1..Len(Segment277Pool)] : n \in 0..MaxSegments}

\* The 277 uploads: the pool's segments ended by "~", and a line-oriented file.
Documents277 ==
    {join([i \in 1..Len(l) |-> Segment277Pool[l[i]] \o <<"~">>]) : l \in Segment277Lists}
    \cup {<<"T", "R", "N", "*", "1", "*", "T", "1", "\r", "\n", "C", "L", "P", "*", "C", "1",
        "*", "1", "\r", "\n", "S", "T", "C", "*", "A", "1", "\r", "\n", "C", "L", "P", "*", "C",
        "2", "*", "4", "\r", "\n">>}

Documents == FixedDocs \cup ComposedDocs \cup NoiseDocs \cup IsaDocs

ControlNumbers == {<<1, 1, 1>>, <<12, 345, 6789>>}

Providers ==
    {Provider(<<"C", "L", "I", "N", "I", "C">>, <<"1", "2", "3">>), Provider(<<"W", "E", "S",
        "T">>, <<"1", "2", "3">>),
     Provider(<<"A", "~", "B">>, <<"1", "2", "3">>)}

Dependents ==
    {None,
     Some(Party(<<"K", "I", "D">>, <<"A">>, << >>, << >>, <<"M", "I">>)),
     Some(Party(<<"K", "I", "D">>, <<"A">>, << >>, <<"D", "1">>, <<"M", "I">>))}

ServiceTypeLists == UNION {[1..n -> {<<"3", "0">>}] : n \in 0..MaxServiceTypes}

\* The optional arguments of build_270, varied together.
OptionBundles ==
    {[trn_trace |-> None, dmg_dob |-> None, dmg_gender |-> None,
      include_prv |-> None, provider_taxonomy |-> None, include_addresses |-> None,
      provider_addr |-> None, subscriber_addr |-> None],
     [trn_trace |-> Some(<<"T", "1">>), dmg_dob |-> Some(<<"1", "9", "8", "0", "0", "1", "0",
         "1">>), dmg_gender |-> None,
      include_prv |-> Some(TRUE), provider_taxonomy |-> Some(<<"2", "0", "7", "Q">>),
      include_addresses |-> Some(TRUE),
      provider_addr |-> Some([line1 |-> <<"1", " ", "A", " ", "S", "T">>, line2 |-> <<"A", "P",
          "T", " ", "2">>,
                              city |-> <<"X">>, state |-> <<"U", "P">>, zip |-> <<"2">>]),
      subscriber_addr |-> Some([line1 |-> <<"9", " ", "B">>, line2 |-> << >>,
                                city |-> << >>, state |-> << >>, zip |-> << >>])],
     [trn_trace |-> None, dmg_dob |-> None, dmg_gender |-> Some(<<"F">>),
      include_prv |-> Some(FALSE), provider_taxonomy |-> Some(<<"2", "0", "7", "Q">>),
      include_addresses |-> Some(TRUE),
      provider_addr |-> Some([line1 |-> << >>, line2 |-> << >>,
                              city |-> <<"X">>, state |-> << >>, zip |-> << >>]),
      subscriber_addr |-> None],
     [trn_trace |-> Some(<<"T", "1">>), dmg_dob |-> None, dmg_gender |-> None,
      include_prv |-> None, provider_taxonomy |-> None,
      include_addresses |-> Some(FALSE),
      provider_addr |-> Some([line1 |-> <<"1", " ", "A", " ", "S", "T">>, line2 |-> << >>,
                              city |-> << >>, state |-> << >>, zip |-> << >>]),
      subscriber_addr |-> Some([line1 |-> <<"9", " ", "B">>, line2 |-> << >>,
                                city |-> <<"X">>, state |-> <<"U", "P">>, zip |-> <<"2">>])]}

\* A profile as the profile editor saves it, with "Dependent requires DMG" ticked.
SavedProfile ==
    ("dependent_require_dmg" :> TRUE) @@ ("dependent_id_required" :> FALSE)
    @@ PAYER_PROFILES.default

Requests270 ==
    {[isa_ctrl |-> c[1], gs_ctrl |-> c[2], st_ctrl |-> c[3],
      payer_id |-> <<"P", "1">>, provider |-> p,
      subscriber |-> Party(<<"D", "O", "E">>, <<"J">>, << >>, <<"W", "1">>, <<"M", "I">>),
      dependent |-> d, service_types |-> s,
      date_start |-> <<"2", "0", "2", "5", "0", "1", "0", "1">>, date_end |-> e, profile |-> f,
      trn_trace |-> o.trn_trace, dmg_dob |-> o.dmg_dob, dmg_gender |-> o.dmg_gender,
      include_prv |-> o.include_prv, provider_taxonomy |-> o.provider_taxonomy,
      include_addresses |-> o.include_addresses,
      provider_addr |-> o.provider_addr, subscriber_addr |-> o.subscriber_addr,
      elem_t |-> DEFAULT_ELEM, seg_t |-> DEFAULT_SEG] :
        c \in ControlNumbers, p \in Providers, d \in Dependents,
        s \in ServiceTypeLists, e \in {None, Some(<<"2", "0", "2", "5", "0", "1", "3", "1">>)},
        f \in {None, Some(PAYER_PROFILES.ACME_HEALTH_12345), Some(SavedProfile)},
        o \in OptionBundles}

\* The calls a run may make: a document handed to the parser and validator, or a
\* builder call whose return value is then parsed and validated.
Calls ==
    {[kind |-> "upload", doc |-> d] : d \in Documents}
    \cup {[kind |-> "upload_277", doc |-> d] : d \in Documents277}
    \cup {[kind |-> "build_270", args |-> r, now |-> now] :
            r \in Requests270, now \in Clocks}
    \cup {[kind |-> "generate_270", args |-> r, now |-> now] :
            r \in {q \in Requests270 : q.isa_ctrl = 1 /\ q.gs_ctrl = 1 /\ q.st_ctrl = 1},
            now \in Clocks}
    \cup {[kind |-> "build_837", ctrl |-> c, patient_name |-> n, dos_end |-> e,
           now |-> now] :
            c \in ControlNumbers, n \in {<<"D", "O", "E">>, <<"W", "E", "S", "T">>},
            e \in {None, Some(<<"2", "0", "2", "5", "0", "1", "0", "2">>)}, now \in Clocks}
    \cup {[kind |-> "build_835", ctrl |-> c, patient_name |-> n, now |-> now] :
            c \in ControlNumbers, n \in {<<"D", "O", "E">>, <<"W", "E", "S", "T">>}, now \in Clocks}
    \cup {[kind |-> "build_276", ctrl |-> c, claim_control_number |-> k,
           date_of_service |-> d, now |-> now] :
            c \in ControlNumbers, k \in {<< >>, <<"C", "C", "9">>},
            d \in {None, Some(<<"2", "0", "2", "5", "0", "1", "0", "1">>)}, now \in Clocks}

(* ------------------------------------------------------------------ *)
(* State: the call at hand, the document it concerns, and what         *)
(* parse_271 and validate_envelopes returned for that document          *)
(* ------------------------------------------------------------------ *)

VARIABLES
    call,       \* the input: an uploaded document, or a builder's arguments
    text,       \* the document: the uploaded text or the builder's return value
    ready,      \* `text` is available (uploaded, or the builder has returned)
    out,        \* parse_271(text), once parsed
    parsed,     \* parse_271 has returned for `text`
    warnings,   \* validate_envelopes(text), once validated
    validated,  \* validate_envelopes has returned for `text`
    summary,    \* normalize_eb_for_reporting(out["eb"]), once shown
    raised,     \* the exception that ended the call, "none" while there is none
    df          \* parse_277(text), once the 277 tab has parsed the upload

vars == <<call, text, ready, out, parsed, warnings, validated, summary, raised, df>>

NotParsed == [pending |-> TRUE]
NotSummarized == [not_shown |-> TRUE]
NoFrame == [no_upload |-> TRUE]

Init ==
    /\ call \in Calls
    /\ text = IF call.kind \in {"upload", "upload_277"} THEN call.doc ELSE << >>
    /\ ready = (call.kind = "upload")
    /\ out = NotParsed
    /\ parsed = FALSE
    /\ warnings = << >>
    /\ validated = FALSE
    /\ summary = NotSummarized
    /\ raised = "none"
    /\ df = NoFrame

Built(document) ==
    /\ ~ready
    /\ text' = document
    /\ ready' = TRUE
    /\ UNCHANGED <<call, out, parsed, warnings, validated, summary, raised, df>>

Build270 ==
    /\ call.kind = "build_270"
    /\ Built(build_270(call.args, call.now))

\* The application's call: a keyword build_270 does not declare ends the call with
\* a TypeError before the body runs.
Generate270 ==
    /\ call.kind = "generate_270"
    /\ ~ready /\ raised = "none"
    /\ IF generate_270_keywords \subseteq build_270_parameters
       THEN /\ text' = build_270(call.args, call.now)
            /\ ready' = TRUE
            /\ raised' = raised
       ELSE /\ raised' = "TypeError"
            /\ UNCHANGED <<text, ready>>
    /\ UNCHANGED <<call, out, parsed, warnings, validated, summary, df>>

Build837 ==
    /\ call.kind = "build_837"
    /\ Built(build_837(call.ctrl[1], call.ctrl[2], call.ctrl[3], <<"S", "E", "N", "D">>, <<"R",
        "E", "C", "V">>,
                       <<"1", "2", "3">>, call.patient_name, <<"W", "1">>, <<"C", "1">>, <<"1",
                           "0", "0">>,
                       <<"2", "0", "2", "5", "0", "1", "0", "1">>, call.dos_end, call.now))

Build835 ==
    /\ call.kind = "build_835"
    /\ Built(build_835(call.ctrl[1], call.ctrl[2], call.ctrl[3], <<"A", "C", "M", "E">>, <<"P",
        "1">>,
                       <<"1", "2", "3">>, <<"C", "1">>, call.patient_name, <<"5", "0">>, <<"C",
                           "H", "K", "1">>,
                       <<"2", "0", "2", "5", "0", "1", "0", "1">>, call.now))

Build276 ==
    /\ call.kind = "build_276"
    /\ Built(build_276(call.ctrl[1], call.ctrl[2], call.ctrl[3], <<"P", "1">>, <<"C", "L", "I",
        "N", "I", "C">>,
                       <<"1", "2", "3">>, <<"D", "O", "E">>, <<"J">>, <<"W",
                           "1">>, call.claim_control_number,
                       call.date_of_service, call.now))

Parse271 ==
    /\ ready /\ ~parsed
    /\ out' = parse_271(text)
    /\ parsed' = TRUE
    /\ UNCHANGED <<call, text, ready, warnings, validated, summary, raised, df>>

ValidateEnvelopes ==
    /\ ready /\ ~validated
    /\ warnings' = validate_envelopes(text)
    /\ validated' = TRUE
    /\ UNCHANGED <<call, text, ready, out, parsed, summary, raised, df>>

\* The parse view shows the quick summary when the parsed document has EB rows.
Summarize ==
    /\ parsed /\ ~IsRaise(out) /\ out.eb # << >>
    /\ summary = NotSummarized
    /\ summary' = normalize_eb_for_reporting(out.eb)
    /\ UNCHANGED <<call, text, ready, out, parsed, warnings, validated, raised, df>>

\* The 277 tab parses the file uploaded to it.
Parse277 ==
    /\ call.kind = "upload_277"
    /\ df = NoFrame
    /\ df' = parse_277(text)
    /\ UNCHANGED <<call, text, ready, out, parsed, warnings, validated, summary, raised>>

Next ==
    \/ Build270
    \/ Generate270
    \/ Build837
    \/ Build835
    \/ Build276
    \/ Parse271
    \/ ValidateEnvelopes
    \/ Summarize
    \/ Parse277

Spec == Init /\ [][Next]_vars

(* ------------------------------------------------------------------ *)
(* Claims                                                               *)
(* ------------------------------------------------------------------ *)

Range(seq) == {seq[i] : i \in 1..Len(seq)}

\* A built document read back with the delimiters it was built with.
BuiltSegments == parse_segments(text, DEFAULT_SEG, DEFAULT_ELEM)

\* The segments of BuiltSegments whose first two elements are NM1 and QD.
DependentNM1s ==
    SelectSeq(BuiltSegments,
              LAMBDA p : Len(p) >= 2 /\ p[1] = <<"N", "M", "1">> /\ p[2] = <<"Q", "D">>)

\* C1: for every build_270 request (default delimiters), validate_envelopes applied
\* to the returned text yields an empty warning list.
C1_Build270ValidatesClean ==
    (call.kind = "build_270" /\ validated) => warnings = << >>

ContextNames == {"payer", "provider", "subscriber", "dependent"}

\* C2: every EB, AAA, DTP and REF row parse_271 outputs carries the context set by
\* the most recent HL segment; for ContextDoc the single EB row is tagged "dependent".
C2_RowsCarryContext ==
    (parsed /\ call.kind = "upload" /\ text = ContextDoc /\ ~IsRaise(out)) =>
        /\ \A row \in Range(out.eb) \cup Range(out.aaa) \cup Range(out.dtp)
                      \cup Range(out.ref) :
              "context" \in DOMAIN row /\ row["context"] \in ContextNames
        /\ Len(out.eb) = 1 /\ out.eb[1]["context"] = "dependent"

\* C3: with a dependent whose id_code is empty, the NM1*QD segment build_270 emits
\* does not end with a non-empty qualifier followed by an empty identifier element.
C3_NoBlankDependentId ==
    (call.kind = "build_270" /\ ready /\ ~is_none(call.args.dependent)
        /\ call.args.dependent.value.id_code = << >>) =>
        \A p \in Range(DependentNM1s) :
            ~(p[Len(p)] = << >> /\ p[Len(p) - 1] # << >>)

OutKeys ==
    {"payer", "provider", "subscriber", "dependent", "eb", "aaa", "trace", "dtp",
     "ref", "_debug", "_validation"}

\* C4: parse_271 is total: whatever the text, it returns a record holding the
\* payer/provider/subscriber/dependent/eb/aaa/trace/dtp/ref buckets, _debug and
\* _validation, and never ends in a raised exception.
C4_ParseTotal ==
    parsed => (~IsRaise(out) /\ DOMAIN out = OutKeys)

\* parse_271 has returned for the document whose segments all lack the elements
\* the parser reads (one EB row, one AAA row, all fields empty).
C4_Witness ==
    /\ parsed /\ call.kind = "upload" /\ text = ShortElementsDoc
    /\ ~IsRaise(out)
    /\ Len(out.eb) = 1 /\ out.eb[1].EB01 = << >> /\ Len(out.aaa) = 1
    /\ DOMAIN out.dependent # {}

\* C5: parsing "EB*1*IND*30***100.00~" yields exactly one EB row with EB01 "1",
\* Coverage "Active Coverage", EB02 "IND", ServiceType "30", BenefitAmt "" and raw
\* element E06 "100.00".
C5_ScenarioRow ==
    (parsed /\ call.kind = "upload" /\ text = ScenarioDoc) =>
        /\ ~IsRaise(out)
        /\ Len(out.eb) = 1
        /\ out.eb[1].EB01 = <<"1">>
        /\ out.eb[1].Coverage = <<"A", "c", "t", "i", "v", "e", " ", "C", "o", "v", "e", "r",
            "a", "g", "e">>
        /\ out.eb[1].EB02 = <<"I", "N", "D">>
        /\ out.eb[1].ServiceType = <<"3", "0">>
        /\ out.eb[1].BenefitAmt = << >>
        /\ out.eb[1].Raw.E06 = <<"1", "0", "0", ".", "0", "0">>

\* The fixed coverage table of the claim.
CoverageOf(c) ==
    CASE c = <<"1">> -> <<"A", "c", "t", "i", "v", "e", " ", "C", "o", "v", "e", "r", "a", "g",
        "e">>
      [] c = <<"6">> -> <<"I", "n", "a", "c", "t", "i", "v", "e", " ", "C", "o", "v", "e", "r",
          "a", "g", "e">>
      [] c = <<"7">> -> <<"P", "o", "l", "i", "c", "y", " ", "C", "a", "n", "c", "e", "l", "l",
          "e", "d">>
      [] c = <<"8">> -> <<"P", "o", "l", "i", "c", "y", " ", "N", "o", "t", " ", "R", "e", "n",
          "e", "w", "e", "d">>
      [] c = <<"I">> -> <<"N", "o", "n", "-", "C", "o", "v", "e", "r", "e", "d">>
      [] c = <<"F">> -> <<"F", "i", "n", "a", "n", "c", "i", "a", "l", "/", "R", "e", "m", "a",
          "i", "n", "i", "n", "g", " ", "B", "e", "n", "e", "f", "i", "t", "s">>
      [] OTHER -> << >>

\* The EB segments of a document written with the default delimiters.
DefaultEBSegments ==
    SelectSeq(parse_segments(text, DEFAULT_SEG, DEFAULT_ELEM),
              LAMBDA p : upper(strip(p[1])) = <<"E", "B">>)

\* C6: each EB segment whose first element after the tag is c produces a row with
\* EB01 = c and Coverage = the table entry of c (empty when c is not in the table),
\* for one-segment documents such as "EB*1~" as for longer ones.  Stated for the
\* documents written with the default delimiters "~" and "*".
C6_CoverageMapping ==
    (parsed /\ call.kind = "upload" /\ ~IsRaise(out)
        /\ detect_delimiters(text) = <<DEFAULT_SEG, DEFAULT_ELEM, DEFAULT_SUBELEM>>) =>
        /\ Len(out.eb) = Len(DefaultEBSegments)
        /\ \A i \in 1..Len(DefaultEBSegments) :
              LET c == IF Len(DefaultEBSegments[i]) > 1 THEN DefaultEBSegments[i][2]
                       ELSE << >>
              IN  out.eb[i].EB01 = c /\ out.eb[i].Coverage = CoverageOf(c)

\* C7: in every document build_837, build_835 and build_276 return, SE01 equals the
\* number of segments from ST through SE inclusive, so validate_envelopes returns
\* no warnings for it.
C7_FixedBuildersBalanced ==
    (ready /\ call.kind \in {"build_837", "build_835", "build_276"}) =>
        LET st == CHOOSE i \in 1..Len(BuiltSegments) : BuiltSegments[i][1] = <<"S", "T">>
            se == CHOOSE i \in 1..Len(BuiltSegments) : BuiltSegments[i][1] = <<"S", "E">>
        IN  /\ int_parses(BuiltSegments[se][2])
            /\ int_value(BuiltSegments[se][2]) = se - st + 1
            /\ validated => warnings = << >>

\* The tokenization validate_envelopes works on, and its ST and SE indexes.
ValidatedSegments ==
    parse_segments(text, validate_delimiters(text)[1], validate_delimiters(text)[2])
STs == tag_idx(ValidatedSegments, <<"S", "T">>)
SEs == tag_idx(ValidatedSegments, <<"S", "E">>)
PairCount == IF Len(STs) < Len(SEs) THEN Len(STs) ELSE Len(SEs)

\* Segments from the i-th ST through the i-th SE inclusive (none when the SE comes first).
RankActual(i) == IF SEs[i] >= STs[i] THEN SEs[i] - STs[i] + 1 ELSE 0

\* C8: for every ST/SE pair validate_envelopes examines, if SE01 parses as an integer
\* (any integer, 0 included) that differs from the number of segments from ST
\* through SE inclusive, the result holds a warning naming declared and actual count.
C8_MismatchWarned ==
    validated =>
        \A i \in 1..PairCount :
            LET se == ValidatedSegments[SEs[i]]
            IN  (Len(se) > 1 /\ int_parses(se[2]) /\ int_value(se[2]) # RankActual(i))
                => CountMismatch(int_value(se[2]), RankActual(i)) \in Range(warnings)

\* C9 as claimed: each ST is checked only against an SE located after it, and an ST
\* with no SE after it (even when an SE occurs earlier) yields the "SE segment
\* missing" warning.
C9_PairsWithFollowingSE ==
    validated =>
        /\ \A i \in 1..PairCount : SEs[i] > STs[i]
        /\ (\E i \in 1..Len(STs) : \A j \in 1..Len(SEs) : SEs[j] < STs[i])
              => MissingSE \in Range(warnings)

\* The warnings of pairing the i-th ST with the i-th SE, for i = from..PairCount.
RECURSIVE RankPairedWarnings(_)
RankPairedWarnings(from) ==
    IF from > PairCount THEN << >>
    ELSE LET se == ValidatedSegments[SEs[from]]
             ok == Len(se) > 1 /\ int_parses(se[2])
             declared == IF ok THEN int_value(se[2]) ELSE 0
         IN  (IF ok THEN << >> ELSE <<BadSE01>>)
             \o (IF declared # 0 /\ declared # RankActual(from)
                 THEN <<CountMismatch(declared, RankActual(from))>> ELSE << >>)
             \o RankPairedWarnings(from + 1)

\* C9 (amended): validate_envelopes checks the i-th ST of the document against the
\* i-th SE of the document, wherever that SE lies; when the document has more ST
\* than SE segments, the first ST without a same-rank SE yields the "SE segment
\* missing for an ST." warning, as the last warning, and pairing ends.
C9_PairsByRank ==
    validated =>
        warnings = RankPairedWarnings(1)
                   \o (IF Len(STs) > Len(SEs) THEN <<MissingSE>> ELSE << >>)

\* validate_envelopes has returned for SE-ST-SE: the ST is counted against the SE
\* that precedes it (0 segments), not the one after it.
C9_Witness ==
    /\ validated /\ call.kind = "upload"
    /\ Len(STs) = 1 /\ Len(SEs) = 2 /\ SEs[1] < STs[1] /\ STs[1] < SEs[2]
    /\ warnings = <<CountMismatch(2, 0)>>

\* C10: within one parse_271 call the segment terminator used to tokenize the
\* document (reported in _debug with its segment_count) is the terminator
\* validate_envelopes uses for _validation: both work on the same segment list.
C10_OneDelimiterSet ==
    (parsed /\ ~IsRaise(out)) =>
        /\ out._debug.segment_terminator = py_repr(validate_delimiters(text)[1])
        /\ out._debug.segment_count = Len(ValidatedSegments)

\* The terminator detect_delimiters starts from: offset 105 of an ISA header of at
\* least 106 characters, "~" otherwise.
CandidateTerminator ==
    IF startswith(text, <<"I", "S", "A">>) /\ Len(text) >= 106 THEN text[106]
    ELSE "~"

TagsOf(segs) == [i \in 1..Len(segs) |-> segs[i][1]]

\* C11 as claimed: for "ST*270*0001~\nSE*12*0001~" the detected terminator is newline
\* and the detected delimiters tokenize it into the 2 segments ST and SE; whenever
\* the candidate occurs fewer than 2 times and the text has 2 or more newlines, the
\* detected terminator is newline.
C11_ScenarioFallsBack ==
    validated =>
        /\ (text = NewlineScenarioDoc =>
               /\ validate_delimiters(text)[1] = "\n"
               /\ TagsOf(ValidatedSegments) = <<<<"S", "T">>, <<"S", "E">>>>)
        /\ (count(text, CandidateTerminator) < 2 /\ count(text, "\n") >= 2)
              => validate_delimiters(text)[1] = "\n"

\* C11 (amended): the detected terminator is newline when the candidate occurs fewer
\* than 2 times and the text has 2 or more newlines, and is the candidate otherwise;
\* "ST*270*0001~\nSE*12*0001~" holds two "~" and one newline, so its terminator is
\* "~", and the detected delimiters tokenize it into the 2 segments ST and SE.
C11_NewlineFallback ==
    validated =>
        /\ validate_delimiters(text)[1] =
              IF count(text, CandidateTerminator) < 2 /\ count(text, "\n") >= 2
              THEN "\n" ELSE CandidateTerminator
        /\ (text = NewlineScenarioDoc =>
               /\ validate_delimiters(text)[1] = "~"
               /\ TagsOf(ValidatedSegments) = <<<<"S", "T">>, <<"S", "E">>>>)

\* A validated document without "~" and with two newline-ended segments: the
\* fallback applied and the tokenizer found both segments.
C11_Witness ==
    /\ validated /\ call.kind = "upload"
    /\ count(text, "~") = 0 /\ count(text, "\n") = 2
    /\ validate_delimiters(text)[1] = "\n"
    /\ TagsOf(ValidatedSegments) = <<<<"S", "T">>, <<"S", "E">>>>

\* C12: for a text that starts with "ISA" and has at least 106 characters the element
\* separator is the character at offset 3, the component separator the one at offset
\* 104 and the terminator the one at offset 105 (then the newline fallback); for
\* every other text the three are "*", ":" and "~" (or newline under the fallback);
\* no text makes the detection fail.
C12_DelimiterOffsets ==
    validated =>
        LET d == validate_delimiters(text)
            isa == Len(text) >= 106 /\ SubSeq(text, 1, 3) = <<"I", "S", "A">>
            seg0 == IF isa THEN text[106] ELSE "~"
            fallback == count(text, seg0) < 2 /\ count(text, "\n") >= 2
        IN  /\ d[2] = (IF isa THEN text[4] ELSE "*")
            /\ d[3] = (IF isa THEN text[105] ELSE ":")
            /\ d[1] = (IF fallback THEN "\n" ELSE seg0)
            /\ CharIndexError \notin {d[1], d[2], d[3]}

\* A validated document with a 106-character ISA header whose element separator is
\* "|" and whose terminator is "E", both taken from the header offsets.
C12_Witness ==
    /\ validated /\ call.kind = "upload"
    /\ Len(text) >= 106 /\ SubSeq(text, 1, 3) = <<"I", "S", "A">>
    /\ text[4] = "|" /\ text[105] = ":" /\ text[106] = "E"
    /\ validate_delimiters(text) = <<"E", "|", ":">>

\* The SE segment of a built document: the third from the end (SE, GE, IEA).
BuiltSE == BuiltSegments[Len(BuiltSegments) - 2]

\* The text values of a build_270 request that end up inside segments.
OptionalText(o) == IF is_none(o) THEN {} ELSE {o.value}
PartyTexts(p) == {p.last, p.first, p.middle, p.id_code}
AddressTexts(o) == IF truthy_dict(o) THEN {o.value[k] : k \in DOMAIN o.value} ELSE {}
RequestTexts(r) ==
    {r.payer_id, r.provider.name, r.provider.npi, r.date_start}
    \cup PartyTexts(r.subscriber)
    \cup (IF is_none(r.dependent) THEN {} ELSE PartyTexts(r.dependent.value))
    \cup Range(r.service_types)
    \cup OptionalText(r.date_end) \cup OptionalText(r.trn_trace)
    \cup OptionalText(r.dmg_dob) \cup OptionalText(r.dmg_gender)
    \cup OptionalText(r.provider_taxonomy)
    \cup AddressTexts(r.provider_addr) \cup AddressTexts(r.subscriber_addr)

LastRow(Match(_)) ==
    LET hits == {i \in 1..Len(out.eb) : Match(out.eb[i])}
    IN  IF hits = {} THEN 0 ELSE CHOOSE i \in hits : \A j \in hits : j <= i

MentionsDeduct(r) == contains(lower(r.PlanDesc), <<"d", "e", "d", "u", "c", "t">>)
MentionsCopay(r) == contains(lower(r.PlanDesc), <<"c", "o", "p", "a", "y">>)
HasPercent(r) == r.Percent # << >>
HasNetworkFlag(r) == r.InPlan # << >>

\* C14: the summary is last-write-wins per field: with several rows matching a
\* heuristic ("deduct" or "copay" in the plan description, percent present, network
\* indicator present), the value left in the summary is the one taken from the last
\* matching row in list order, not from an earlier one.
C14_LastWriteWins ==
    summary # NotSummarized =>
        LET d == LastRow(MentionsDeduct)
            c == LastRow(MentionsCopay)
            p == LastRow(HasPercent)
            n == LastRow(HasNetworkFlag)
        IN  /\ (d # 0 /\ ~is_none(summary.DeductibleRemaining))
                  => summary.DeductibleRemaining.value = out.eb[d].BenefitAmt
            /\ (c # 0 /\ ~is_none(summary.CopayAmount))
                  => summary.CopayAmount.value = out.eb[c].BenefitAmt
            /\ p # 0 => summary.CoinsurancePercent = Some(out.eb[p].Percent)
            /\ n # 0 => summary.InNetwork =
                           (IF out.eb[n].InPlan = <<"Y">> THEN Some(<<"Y", "e", "s">>)
                            ELSE IF out.eb[n].InPlan = <<"N">> THEN Some(<<"N", "o">>)
                            ELSE None)

\* The pieces of the text between occurrences of the detected terminator, and those
\* of them that are not empty or pure whitespace.
TerminatedPieces == split(text, validate_delimiters(text)[1])
NonBlankPieces == SelectSeq(TerminatedPieces, LAMBDA p : strip(p) # << >>)

\* C15: parse_segments returns the segments in the order they occur in the text,
\* each with at least one element, and as many segments as there are
\* terminator-delimited pieces that are not empty or pure whitespace.
C15_SegmentsInOrder ==
    validated =>
        /\ Len(ValidatedSegments) = Len(NonBlankPieces)
        /\ \A i \in 1..Len(ValidatedSegments) :
              /\ Len(ValidatedSegments[i]) >= 1
              /\ join_with(validate_delimiters(text)[2], ValidatedSegments[i])
                    = strip(NonBlankPieces[i])

\* The "\r\n" document has been tokenized: five newline-delimited pieces, the blank
\* line and the empty tail dropped, ST, EB and SE returned in that order.
C15_Witness ==
    /\ validated /\ text = CrLfDoc
    /\ Len(TerminatedPieces) = 5 /\ Len(ValidatedSegments) = 3
    /\ TagsOf(ValidatedSegments) = <<<<"S", "T">>, <<"E", "B">>, <<"S", "E">>>>

\* The request's profile sets dependent_require_dmg.
DependentRequiresDMG(r) ==
    truthy_dict(r.profile) /\ dict_get(r.profile.value, "dependent_require_dmg", FALSE)

\* C16: a 270 built for a dependent under a profile with dependent_require_dmg holds
\* a DMG segment after the NM1*QD segment, and the call the "Generate 270" action
\* makes (with dep_dmg_dob and dep_dmg_gender) completes and returns a document.
C16_DependentDMG ==
    /\ (call.kind = "build_270" /\ ready /\ ~is_none(call.args.dependent)
          /\ DependentRequiresDMG(call.args)) =>
            \E i, j \in 1..Len(BuiltSegments) :
                /\ i < j
                /\ Len(BuiltSegments[i]) >= 2
                /\ BuiltSegments[i][1] = <<"N", "M", "1">>
                /\ BuiltSegments[i][2] = <<"Q", "D">>
                /\ BuiltSegments[j][1] = <<"D", "M", "G">>
    /\ call.kind = "generate_270" => raised = "none"

\* The tokenization parse_271 loops over.
ParsedSegments ==
    parse_segments(text, parse_271_seg_t(text), detect_delimiters(text)[2])

StructuredTags ==
    {<<"N", "M", "1">>, <<"T", "R", "N">>, <<"E", "B">>, <<"A", "A", "A">>,
     <<"D", "T", "P">>, <<"R", "E", "F">>}
HasStructuredTag(parts) == upper(strip(parts[1])) \in StructuredTags

Buckets == {"payer", "provider", "subscriber", "dependent", "eb", "aaa", "trace", "dtp", "ref"}

\* What parse_271 collects from the structured-tag segments alone.
StructuredOnly ==
    LET kept == SelectSeq(ParsedSegments, HasStructuredTag)
    IN  parse_loop(kept, 1,
                   parse_271_start(parse_271_seg_t(text), detect_delimiters(text)[2], kept))

\* C17: a segment whose tag is not NM1, TRN, EB, AAA, DTP or REF leaves every bucket
\* (payer, provider, subscriber, dependent, eb, aaa, trace, dtp, ref) as it was, yet
\* is counted in _debug.segment_count and in the ST..SE count validate_envelopes
\* compares with SE01.
C17_OtherTagsOnlyCounted ==
    (parsed /\ ~IsRaise(out)) =>
        /\ \A b \in Buckets : out[b] = StructuredOnly[b]
        /\ out._debug.segment_count = Len(ParsedSegments)
        /\ \A i \in 1..PairCount :
              LET se == ValidatedSegments[SEs[i]]
                  ok == Len(se) > 1 /\ int_parses(se[2])
              IN  (ok /\ int_value(se[2]) # 0) =>
                    (CountMismatch(int_value(se[2]), RankActual(i)) \in Range(out._validation)
                        <=> int_value(se[2]) # RankActual(i))

\* parse_271 has returned for ST, ZZ, SE*2: no bucket holds anything, the segment
\* count is 3, and the ZZ segment makes the ST..SE count 3 against the declared 2.
C17_Witness ==
    /\ parsed /\ ~IsRaise(out) /\ call.kind = "upload"
    /\ TagsOf(ParsedSegments) = <<<<"S", "T">>, <<"Z", "Z">>, <<"S", "E">>>>
    /\ \A b \in Buckets : out[b] = << >>
    /\ out._debug.segment_count = 3
    /\ out._validation = <<CountMismatch(2, 3)>>

\* Positions of the HL segments in a list of segments.
HLPositions(segs) ==
    SelectSeq([i \in 1..Len(segs) |-> i], LAMBDA i : segs[i][1] = <<"H", "L">>)

\* Level code and entity code of the k-th hierarchical level.
LevelCodes == <<<<"2", "0">>, <<"2", "1">>, <<"2", "2">>, <<"2", "3">>>>
EntityCodes == <<<<"P", "R">>, <<"1", "P">>, <<"I", "L">>, <<"Q", "D">>>>

\* C18: in every build_270 output the HL segments are numbered 1..n in order (3
\* without a dependent, 4 with one) with level codes 20, 21, 22, 23; each HL after the
\* first names the preceding HL as parent; each HL is immediately followed by the NM1
\* of its entity (PR, 1P, IL, QD); the has-child flag is "1" exactly when another HL
\* follows and "0" for the last HL.
C18_HierarchyWellFormed ==
    (call.kind = "build_270" /\ ready) =>
        LET segs == BuiltSegments
            at == HLPositions(segs)
            n == Len(at)
        IN  /\ n = (IF is_none(call.args.dependent) THEN 3 ELSE 4)
            /\ \A k \in 1..n :
                  LET hl == segs[at[k]]
                      nm1 == segs[at[k] + 1]
                  IN  /\ Len(hl) = 5
                      /\ hl[2] = nat_str(k)
                      /\ hl[3] = (IF k = 1 THEN << >> ELSE nat_str(k - 1))
                      /\ hl[4] = LevelCodes[k]
                      /\ hl[5] = (IF k < n THEN <<"1">> ELSE <<"0">>)
                      /\ Len(nm1) >= 2
                      /\ nm1[1] = <<"N", "M", "1">> /\ nm1[2] = EntityCodes[k]

\* A built 270 with a dependent: four HL segments, the third flagged as having a
\* child and the fourth ("HL*4*3*23*0") followed by NM1*QD.
C18_Witness ==
    /\ call.kind = "build_270" /\ ready /\ ~is_none(call.args.dependent)
    /\ LET segs == BuiltSegments
           at == HLPositions(segs)
       IN  /\ Len(at) = 4
           /\ segs[at[3]] = <<<<"H", "L">>, <<"3">>, <<"2">>, <<"2", "2">>, <<"1">>>>
           /\ segs[at[4]] = <<<<"H", "L">>, <<"4">>, <<"3">>, <<"2", "3">>, <<"0">>>>
           /\ segs[at[4] + 1][2] = <<"Q", "D">>

\* C19: detect_delimiters applied to a text build_270 returned with its default
\* delimiters gives back "~", "*" and ":": the ISA segment has the component
\* separator at offset 104 and the terminator at offset 105.
C19_BuiltDelimitersDetected ==
    (call.kind = "build_270" /\ ready) =>
        /\ Len(text) >= 106 /\ text[105] = DEFAULT_SUBELEM /\ text[106] = DEFAULT_SEG
        /\ detect_delimiters(text) = <<DEFAULT_SEG, DEFAULT_ELEM, DEFAULT_SUBELEM>>

\* The first segment of segs with the given tag.
FirstTagged(segs, tag) ==
    segs[CHOOSE i \in 1..Len(segs) :
            segs[i][1] = tag /\ \A j \in 1..(i - 1) : segs[j][1] # tag]

\* C20: in the document each builder (build_270, build_276, build_835, build_837)
\* returns, every trailer repeats the control number of its header: SE02 = ST02,
\* GE02 = GS06 and IEA02 = ISA13.
C20_TrailersRepeatControl ==
    (ready /\ call.kind \in {"build_270", "build_276", "build_835", "build_837"}) =>
        LET segs == BuiltSegments
        IN  /\ FirstTagged(segs, <<"S", "E">>)[3] = FirstTagged(segs, <<"S", "T">>)[3]
            /\ FirstTagged(segs, <<"G", "E">>)[3] = FirstTagged(segs, <<"G", "S">>)[7]
            /\ FirstTagged(segs, <<"I", "E", "A">>)[3] = FirstTagged(segs, <<"I", "S", "A">>)[14]

\* The CLP segments of the uploaded 277, as parse_277 tokenizes it.
CLPSegments ==
    LET lines == parse_277_lines(text)
        segs == [i \in 1..Len(lines) |-> split(lines[i], "*")]
    IN  SelectSeq(segs, LAMBDA p : upper(p[1]) = <<"C", "L", "P">>)

\* C21: parse_277 returns exactly one row per CLP segment, in document order, each
\* row's ClaimID being element 1 of its CLP; segments before the first CLP (TRN,
\* STC, NM1*QC, DTP) create no row of their own and a document without CLP yields
\* no rows.
C21_OneRowPerCLP ==
    df # NoFrame =>
        LET clps == CLPSegments
        IN  /\ Len(df.rows) = Len(clps)
            /\ \A i \in 1..Len(df.rows) :
                  /\ "ClaimID" \in DOMAIN df.rows[i]
                  /\ df.rows[i].ClaimID = (IF Len(clps[i]) > 1 THEN clps[i][2] ELSE << >>)
====
